---- MODULE Spec2Model ----
(***************************************************************************)
(* A model of venv/main.py: the PetStore user-API test harness.            *)
(*                                                                         *)
(*   - UserAPITestBase: the fixture generator (generate_user_data), the    *)
(*     API client (one HTTP call per method), the result recorder          *)
(*     (add_test_result) and the report builder (generate_report);         *)
(*   - the scenarios of TestUserCreation, TestUserLoginLogout and          *)
(*     TestUserUpdateDelete, run_all_tests, test_single_user_flow and the  *)
(*     menu of __main__.                                                   *)
(*                                                                         *)
(* The remote service is not part of the program: every HTTP call returns  *)
(* any response of the endpoint's response set, or raises a transport      *)
(* error.  Python exceptions are not caught anywhere in main.py, so a      *)
(* raise ends the process (pc = "crashed").                                *)
(***************************************************************************)
EXTENDS Integers, Sequences, FiniteSets, TLC

VARIABLES
    pc,            \* position of the process in main.py
    choice,        \* the menu input (line 310)
    step,          \* index into steps of test_single_user_flow (line 294)
    test_results,  \* test_results of each UserAPITestBase instance (line 17)
    report,        \* <<>> or <<the dict generate_report returned>>
    report_file,   \* <<>> or <<the content of test_report.json>>
    writes,        \* how many times test_report.json was opened for writing
    exc,           \* the exception that ended the process, or "none"
    clock,         \* datetime.datetime.now(), as a logical clock
    user_data,     \* <<>> or <<the record printed by menu choice 3>>
    calls,         \* history: the HTTP calls issued, in order
    attempted,     \* history: the arguments of every add_test_result call
    json_calls     \* history: the responses whose .json() was evaluated

vars == <<pc, choice, step, test_results, report, report_file, writes, exc,
          clock, user_data, calls, attempted, json_calls>>

(***************************************************************************)
(* Responses.  A body keeps its raw text, whether the text is a JSON       *)
(* document, the parsed document (a JSON object as a set of <<key, value>> *)
(* pairs) and which of the substrings the scenarios look for occur in its  *)
(* lower-cased text.                                                       *)
(***************************************************************************)
Body(text, is_json, json, has) ==
    [text |-> text, is_json |-> is_json, json |-> json, has |-> has]

EmptyDict == {}

EmptyBody == Body("", FALSE, EmptyDict, {})

HtmlBody == Body("<html><body>Bad Gateway</body></html>", FALSE, EmptyDict, {})

ApiMessage(code, type, message, has) ==
    Body("{\"code\":" \o code \o ",\"type\":\"" \o type \o "\",\"message\":\"" \o message \o "\"}",
         TRUE,
         {<<"code", code>>, <<"type", type>>, <<"message", message>>},
         has)

UserBody(firstName) ==
    Body("{\"id\":1234,\"username\":\"jsmith\",\"firstName\":\"" \o firstName \o "\"}",
         TRUE,
         {<<"id", "1234">>, <<"username", "jsmith">>, <<"firstName", firstName>>},
         {})

IdMessage == ApiMessage("200", "unknown", "1234", {})
LoggedInMessage == ApiMessage("200", "unknown", "logged in user session:1700000000000", {"logged in"})
OkMessage == ApiMessage("200", "unknown", "ok", {"ok"})
InvalidMessage == ApiMessage("400", "error", "Invalid username/password supplied", {"error", "invalid"})
NotFoundMessage == ApiMessage("1", "error", "User not found", {"error"})
UpdatedUser == UserBody("UpdatedFirstName")
StaleUser == UserBody("John")

Response(status_code, content) == [status_code |-> status_code, content |-> content]

\* what any endpoint may answer when it does not do what was asked
CommonResponses ==
    { Response(404, NotFoundMessage), Response(500, HtmlBody), Response(200, EmptyBody) }

Responses(op) ==
    CASE op = "create"         -> {Response(200, IdMessage)} \cup CommonResponses
      [] op = "create_invalid" -> {Response(200, IdMessage), Response(200, InvalidMessage)}
                                      \cup CommonResponses
      [] op = "login"          -> {Response(200, LoggedInMessage), Response(200, InvalidMessage)}
                                      \cup CommonResponses
      [] op = "logout"         -> {Response(200, OkMessage)} \cup CommonResponses
      [] op = "get"            -> {Response(200, UpdatedUser), Response(200, StaleUser),
                                   Response(200, IdMessage)} \cup CommonResponses
      [] op = "update"         -> {Response(200, IdMessage)} \cup CommonResponses
      [] op = "delete"         -> {Response(200, IdMessage)} \cup CommonResponses

\* response.text.lower() contains the keyword
TextHas(response, keyword) == keyword \in response.content.has

\* response.json(): raises JSONDecodeError unless the content is a JSON document
JsonRaises(response) == ~response.content.is_json

JsonValue(response) == response.content.json

\* str(response.json()).lower() contains the keyword: the repr of the parsed
\* document shows every key and value of the text
JsonStrHas(response, keyword) == keyword \in response.content.has

\* json()["firstName"]: KeyError when the object has no such key
HasKey(json, key) == \E kv \in json : kv[1] = key

Lookup(json, key) == (CHOOSE kv \in json : kv[1] = key)[2]

(***************************************************************************)
(* expected_status is an int (200, 404), a str ("any error") or None.      *)
(***************************************************************************)
ExpInt(n) == [tag |-> "int", int |-> n, str |-> ""]
ExpStr(s) == [tag |-> "str", int |-> 0, str |-> s]
ExpNone == [tag |-> "None", int |-> 0, str |-> ""]

(***************************************************************************)
(* add_test_result (lines 64-76)                                           *)
(***************************************************************************)
AddArgs(inst, scenario, test_name, status, response, expected_status, notes) ==
    [inst |-> inst, scenario |-> scenario, test_name |-> test_name, status |-> status,
     response |-> response, expected_status |-> expected_status, notes |-> notes]

\* line 73: the body is parsed only when response.content is truthy
ParsesBodyAlways(response) == TRUE

ParsesBody(response) == response.content.text # ""

AddRaises(response) == ParsesBody(response) /\ JsonRaises(response)

\* lines 67-75: the result dict
NewResult(a, now) ==
    [test_name |-> a.test_name,
     status |-> a.status,
     timestamp |-> now,
     response_status |-> a.response.status_code,
     expected_status |-> a.expected_status,
     response_body |-> IF ParsesBody(a.response) THEN JsonValue(a.response) ELSE EmptyDict,
     notes |-> a.notes]

\* line 76: self.test_results.append(result)
AppendResultFront(results, result) == <<result>> \o results

AppendResult(results, result) == Append(results, result)

\* an uncaught exception ends the process
RaiseThenReport(e) ==
    /\ pc' = IF choice = "2" THEN "report_flow" ELSE "report_all"
    /\ exc' = e

Raise(e) == pc' = "crashed" /\ exc' = e

\* the whole call: either the parse raises, or one result is appended.
\* judged: the responses whose .json() the caller evaluated while judging
AddTestResult(a, next, judged) ==
    /\ attempted' = Append(attempted, a)
    /\ json_calls' = json_calls \o judged \o
                        (IF ParsesBody(a.response) THEN <<a.response>> ELSE <<>>)
    /\ IF AddRaises(a.response)
       THEN /\ Raise("JSONDecodeError")
            /\ UNCHANGED <<test_results, clock>>
       ELSE /\ test_results' = [test_results EXCEPT
                                   ![a.inst] = AppendResult(@, NewResult(a, clock))]
            /\ clock' = clock + 1
            /\ pc' = next
            /\ exc' = exc

(***************************************************************************)
(* Python floats: IEEE-754 binary64, round to nearest, ties to even.  A    *)
(* positive float is m * 2^e with m a sequence of MantBits bits, most      *)
(* significant first and leading bit 1.  Only what line 89 needs is        *)
(* modelled: int / int and float * int on small non-negative ints.         *)
(***************************************************************************)
MantBits == 53

RECURSIVE Pow2(_)
Pow2(k) == IF k = 0 THEN 1 ELSE 2 * Pow2(k - 1)

RECURSIVE Log2Floor(_, _)
\* the s >= 0 with d * 2^s <= n < d * 2^(s+1), for n >= d > 0
Log2Floor(n, d) == IF n < 2 * d THEN 0 ELSE 1 + Log2Floor(n, 2 * d)

\* long arithmetic goes by limbs of 8 bits, most significant first
LimbsToBits(limbs) ==
    [j \in 1..(8 * Len(limbs)) |->
        (limbs[((j - 1) \div 8) + 1] \div Pow2(7 - ((j - 1) % 8))) % 2]

BitsToLimbs(bits) ==
    LET n   == (Len(bits) + 7) \div 8
        pad == n * 8 - Len(bits)
        bit(j) == IF j <= pad THEN 0 ELSE bits[j - pad]
    IN  [i \in 1..n |->
            LET b == (i - 1) * 8
            IN  128 * bit(b + 1) + 64 * bit(b + 2) + 32 * bit(b + 3) + 16 * bit(b + 4)
                + 8 * bit(b + 5) + 4 * bit(b + 6) + 2 * bit(b + 7) + bit(b + 8)]

\* a bit sequence without its leading zero bits
StripZeros(bits) ==
    IF \A i \in 1..Len(bits) : bits[i] = 0 THEN <<>>
    ELSE LET f == CHOOSE i \in 1..Len(bits) :
                      bits[i] = 1 /\ \A j \in 1..(i - 1) : bits[j] = 0
         IN  SubSeq(bits, f, Len(bits))

\* a bit sequence plus one; a carry out of the top bit lengthens it
Incr(bits) ==
    IF \A i \in 1..Len(bits) : bits[i] = 1
    THEN <<1>> \o [i \in 1..Len(bits) |-> 0]
    ELSE LET z == CHOOSE i \in 1..Len(bits) :
                      bits[i] = 0 /\ \A j \in (i + 1)..Len(bits) : bits[j] = 1
         IN  [i \in 1..Len(bits) |-> IF i < z THEN bits[i] ELSE IF i = z THEN 1 ELSE 0]

FZero == [m |-> <<>>, e |-> 0]

\* bits * 2^e (leading bit 1, at least MantBits bits) rounded to MantBits bits;
\* sticky: nonzero digits lie below the sequence
FRound(bits, e, sticky) ==
    LET L    == Len(bits)
        keep == SubSeq(bits, 1, MantBits)
        up   == /\ L > MantBits
                /\ bits[MantBits + 1] = 1
                /\ \/ sticky
                   \/ \E i \in (MantBits + 2)..L : bits[i] = 1
                   \/ bits[MantBits] = 1
        inc  == Incr(keep)
    IN  IF ~up THEN [m |-> keep, e |-> e + (L - MantBits)]
        ELSE IF Len(inc) > MantBits
             THEN [m |-> SubSeq(inc, 1, MantBits), e |-> e + (L - MantBits) + 1]
             ELSE [m |-> inc, e |-> e + (L - MantBits)]

RECURSIVE QuotLimbs(_, _, _)
\* the next k limbs of r / d (r < d), then the remainder as last element
QuotLimbs(r, d, k) ==
    IF k = 0 THEN <<r>>
    ELSE <<(r * 256) \div d>> \o QuotLimbs((r * 256) % d, d, k - 1)

\* int / int (Python's true division is correctly rounded), d > 0
FDiv(n, d) ==
    IF n = 0 THEN FZero
    ELSE LET up == IF n >= d THEN Log2Floor(n, d) ELSE 0
             lg == IF n >= d THEN 0 ELSE Log2Floor(d, n)
             dn == IF n >= d THEN 0 ELSE IF Pow2(lg) * n = d THEN lg ELSE lg + 1
             nn == n * Pow2(dn)
             dd == d * Pow2(up)
             q  == QuotLimbs(nn - dd, dd, 7)
             bits == <<1>> \o LimbsToBits(SubSeq(q, 1, 7))
         IN  FRound(bits, up - dn - 56, q[8] > 0)

RECURSIVE IntLimbs(_)
IntLimbs(n) == IF n = 0 THEN <<>> ELSE IntLimbs(n \div 256) \o <<n % 256>>

RECURSIVE MulLimbs(_, _, _)
\* limbs * k + carry
MulLimbs(limbs, k, carry) ==
    IF limbs = <<>> THEN IntLimbs(carry)
    ELSE LET v == limbs[Len(limbs)] * k + carry
         IN  MulLimbs(SubSeq(limbs, 1, Len(limbs) - 1), k, v \div 256) \o <<v % 256>>

\* float * int (a small int converts to float exactly), rounded
FMulInt(f, k) ==
    IF f = FZero \/ k = 0 THEN FZero
    ELSE FRound(StripZeros(LimbsToBits(MulLimbs(BitsToLimbs(f.m), k, 0))), f.e, FALSE)

FromInt(n) == FDiv(n, 1)

\* a < b on floats >= 0
FLess(a, b) ==
    IF b = FZero THEN FALSE
    ELSE IF a = FZero THEN TRUE
    ELSE IF a.e # b.e THEN a.e < b.e
    ELSE \E i \in 1..MantBits :
            /\ a.m[i] < b.m[i]
            /\ \A j \in 1..(i - 1) : a.m[j] = b.m[j]

FLeq(a, b) == a = b \/ FLess(a, b)

\* the next float above a positive float
FSucc(f) ==
    LET inc == Incr(f.m)
    IN  IF Len(inc) > MantBits THEN [m |-> SubSeq(inc, 1, MantBits), e |-> f.e + 1]
        ELSE [m |-> inc, e |-> f.e]

\* a and b are at most two floats apart
FNear(a, b) ==
    \/ a = b
    \/ a # FZero /\ (FSucc(a) = b \/ FSucc(FSucc(a)) = b)
    \/ b # FZero /\ (FSucc(b) = a \/ FSucc(FSucc(b)) = a)

(***************************************************************************)
(* generate_report (lines 78-115)                                          *)
(***************************************************************************)
PassedTestsNotFirst(results) ==
    Cardinality({i \in 2..Len(results) : results[i].status = "PASSED"})

RECURSIVE PassedTests(_)
\* line 81: sum(1 for result in self.test_results if result["status"] == "PASSED")
PassedTests(results) ==
    IF results = <<>> THEN 0
    ELSE (IF Head(results).status = "PASSED" THEN 1 ELSE 0) + PassedTests(Tail(results))

\* line 89: (passed_tests / total_tests * 100) if total_tests > 0 else 0
SuccessRateNoScale(passed_tests, total_tests) ==
    IF total_tests > 0 THEN FDiv(passed_tests, total_tests) ELSE FZero

SuccessRate(passed_tests, total_tests) ==
    IF total_tests > 0 THEN FMulInt(FDiv(passed_tests, total_tests), 100) ELSE FZero

\* lines 80-91: the report dict
BuildReport(results, now) ==
    LET total_tests  == Len(results)
        passed_tests == PassedTests(results)
        failed_tests == total_tests - passed_tests
    IN  [report_date |-> now,
         total_tests |-> total_tests,
         passed_tests |-> passed_tests,
         failed_tests |-> failed_tests,
         success_rate |-> SuccessRate(passed_tests, total_tests),
         test_results |-> results]

\* lines 78-115: build, write test_report.json (json.dump of the dict), print, return
GenerateReport(results, next) ==
    /\ report' = <<BuildReport(results, clock)>>
    /\ report_file' = <<BuildReport(results, clock)>>
    /\ writes' = writes + 1
    /\ clock' = clock + 1
    /\ pc' = next
    /\ UNCHANGED <<exc, attempted, json_calls>>

(***************************************************************************)
(* The recorder and the report builder on their own: any sequence of up to *)
(* MaxResults add_test_result calls on one instance, then generate_report. *)
(***************************************************************************)
MaxResults == 3

Instances == {"creation_tests", "login_tests", "update_tests", "final_report", "base"}

RecNames == {"test_a", "test_b"}

RecStatuses == {"PASSED", "FAILED"}

RecResponses ==
    { Response(200, IdMessage), Response(200, EmptyBody),
      Response(404, NotFoundMessage), Response(500, HtmlBody) }

InitCommon ==
    /\ choice = ""
    /\ step = 1
    /\ test_results = [i \in Instances |-> <<>>]
    /\ report = <<>>
    /\ report_file = <<>>
    /\ writes = 0
    /\ exc = "none"
    /\ clock = 0
    /\ user_data = <<>>
    /\ calls = <<>>
    /\ attempted = <<>>
    /\ json_calls = <<>>

RecInit == pc = "recorder" /\ InitCommon

RecAdd ==
    /\ pc = "recorder"
    /\ Len(attempted) < MaxResults
    /\ \E test_name \in RecNames, status \in RecStatuses, response \in RecResponses :
          AddTestResult(AddArgs("base", "recorder", test_name, status, response, ExpInt(200),
                                IF status = "FAILED" THEN "mismatch" ELSE ""),
                        "recorder", <<>>)
    /\ UNCHANGED <<choice, step, report, report_file, writes, user_data, calls>>

RecReport ==
    /\ pc = "recorder"
    /\ GenerateReport(test_results["base"], "done")
    /\ UNCHANGED <<choice, step, user_data, calls, test_results>>

RecNext == RecAdd \/ RecReport

SpecRecorder == RecInit /\ [][RecNext]_vars

(***************************************************************************)
(* The API client (lines 32-62): one HTTP call on the session.  The call   *)
(* returns a response of the endpoint or raises (requests' ConnectionError *)
(* and the like).  The strings of notes and step names are Russian in the  *)
(* source and rendered in English here.                                    *)
(***************************************************************************)
NoResponse == Response(0, EmptyBody)

Session(op) ==
    {[raised |-> FALSE, response |-> r] : r \in Responses(op)}
        \cup {[raised |-> TRUE, response |-> NoResponse]}

Issue(inst, scenario, op, o) ==
    calls' = Append(calls, [inst |-> inst, scenario |-> scenario, op |-> op,
                            raised |-> o.raised, status_code |-> o.response.status_code,
                            has |-> o.response.content.has])

\* the call itself raised: nothing is judged or recorded
TransportError ==
    /\ Raise("ConnectionError")
    /\ UNCHANGED <<test_results, clock, attempted, json_calls>>

\* an exception raised while judging a response, before add_test_result
JudgeRaises(e, response) ==
    /\ Raise(e)
    /\ json_calls' = Append(json_calls, response)
    /\ UNCHANGED <<test_results, clock, attempted>>

\* the `return` after a failed prerequisite or check (lines 158, 167, 199, 229):
\* the scenario ends and run_all_tests goes on with the next one
FallThrough(next_scenario, next_step) == next_step

Return(next_scenario, next_step) == next_scenario

\* a step that records nothing
Proceed(next) ==
    /\ pc' = next
    /\ UNCHANGED <<test_results, clock, attempted, json_calls, exc>>

Untouched == UNCHANGED <<choice, step, report, report_file, writes, user_data>>

(***************************************************************************)
(* TestUserCreation (lines 117-145)                                        *)
(***************************************************************************)
\* test_create_user_success (lines 120-131)
CreateUserSuccess ==
    /\ pc = "create_success"
    /\ \E o \in Session("create") :
        /\ Issue("creation_tests", "create_success", "create", o)
        /\ IF o.raised THEN TransportError
           ELSE IF o.response.status_code = 200
           THEN AddTestResult(AddArgs("creation_tests", "create_success",
                                      "test_create_user_success", "PASSED", o.response,
                                      ExpInt(200), ""),
                              "create_invalid", <<>>)
           ELSE AddTestResult(AddArgs("creation_tests", "create_success",
                                      "test_create_user_success", "FAILED", o.response,
                                      ExpInt(200), "could not create the user"),
                              "create_invalid", <<>>)
    /\ Untouched

\* test_create_user_invalid_data (lines 133-145)
CreateUserInvalidData ==
    /\ pc = "create_invalid"
    /\ \E o \in Session("create_invalid") :
        /\ Issue("creation_tests", "create_invalid", "create", o)
        /\ IF o.raised THEN TransportError
           ELSE IF o.response.status_code # 200
           THEN AddTestResult(AddArgs("creation_tests", "create_invalid",
                                      "test_create_user_invalid_data", "PASSED", o.response,
                                      ExpStr("any error"), "an error was expected for invalid data"),
                              "ll_create", <<>>)
           ELSE IF JsonRaises(o.response) THEN JudgeRaises("JSONDecodeError", o.response)
           ELSE IF JsonStrHas(o.response, "error")
           THEN AddTestResult(AddArgs("creation_tests", "create_invalid",
                                      "test_create_user_invalid_data", "PASSED", o.response,
                                      ExpStr("any error"), "an error was expected for invalid data"),
                              "ll_create", <<o.response>>)
           ELSE AddTestResult(AddArgs("creation_tests", "create_invalid",
                                      "test_create_user_invalid_data", "FAILED", o.response,
                                      ExpStr("error expected"), "no error returned for invalid data"),
                              "ll_create", <<o.response>>)
    /\ Untouched

(***************************************************************************)
(* TestUserLoginLogout (lines 147-186)                                     *)
(***************************************************************************)
\* test_login_logout_success, lines 152-158: the prerequisite user
LoginLogoutCreate ==
    /\ pc = "ll_create"
    /\ \E o \in Session("create") :
        /\ Issue("login_tests", "login_logout", "create", o)
        /\ IF o.raised THEN TransportError
           ELSE IF o.response.status_code # 200
           THEN AddTestResult(AddArgs("login_tests", "login_logout",
                                      "test_login_logout_success", "FAILED", o.response,
                                      ExpInt(200), "could not create the user for the login test"),
                              Return("login_invalid", "ll_login"), <<>>)
           ELSE Proceed("ll_login")
    /\ Untouched

\* test_login_logout_success, lines 160-167
LoginLogoutLogin ==
    /\ pc = "ll_login"
    /\ \E o \in Session("login") :
        /\ Issue("login_tests", "login_logout", "login", o)
        /\ IF o.raised THEN TransportError
           ELSE IF o.response.status_code = 200 /\ TextHas(o.response, "logged in")
           THEN AddTestResult(AddArgs("login_tests", "login_logout",
                                      "test_login_success", "PASSED", o.response,
                                      ExpInt(200), ""),
                              "ll_logout", <<>>)
           ELSE AddTestResult(AddArgs("login_tests", "login_logout",
                                      "test_login_success", "FAILED", o.response,
                                      ExpInt(200), "could not log the user in"),
                              Return("login_invalid", "ll_logout"), <<>>)
    /\ Untouched

\* test_login_logout_success, lines 169-175
LoginLogoutLogout ==
    /\ pc = "ll_logout"
    /\ \E o \in Session("logout") :
        /\ Issue("login_tests", "login_logout", "logout", o)
        /\ IF o.raised THEN TransportError
           ELSE IF o.response.status_code = 200 /\ TextHas(o.response, "ok")
           THEN AddTestResult(AddArgs("login_tests", "login_logout",
                                      "test_logout_success", "PASSED", o.response,
                                      ExpInt(200), ""),
                              "login_invalid", <<>>)
           ELSE AddTestResult(AddArgs("login_tests", "login_logout",
                                      "test_logout_success", "FAILED", o.response,
                                      ExpInt(200), "could not log the user out"),
                              "login_invalid", <<>>)
    /\ Untouched

\* test_login_invalid_credentials (lines 177-186)
LoginInvalidCredentials ==
    /\ pc = "login_invalid"
    /\ \E o \in Session("login") :
        /\ Issue("login_tests", "login_invalid", "login", o)
        /\ IF o.raised THEN TransportError
           ELSE IF o.response.status_code = 200 /\ TextHas(o.response, "invalid")
           THEN AddTestResult(AddArgs("login_tests", "login_invalid",
                                      "test_login_invalid_credentials", "PASSED", o.response,
                                      ExpStr("any error"), "an error was expected for wrong credentials"),
                              "up_create", <<>>)
           ELSE AddTestResult(AddArgs("login_tests", "login_invalid",
                                      "test_login_invalid_credentials", "FAILED", o.response,
                                      ExpStr("error expected"), "no error returned for wrong credentials"),
                              "up_create", <<>>)
    /\ Untouched

(***************************************************************************)
(* TestUserUpdateDelete (lines 188-244)                                    *)
(***************************************************************************)
\* test_update_user_success, lines 193-199: the prerequisite user
UpdateCreate ==
    /\ pc = "up_create"
    /\ \E o \in Session("create") :
        /\ Issue("update_tests", "update", "create", o)
        /\ IF o.raised THEN TransportError
           ELSE IF o.response.status_code # 200
           THEN AddTestResult(AddArgs("update_tests", "update",
                                      "test_update_user_success", "FAILED", o.response,
                                      ExpInt(200), "could not create the user for the update test"),
                              Return("del_create", "up_update"), <<>>)
           ELSE Proceed("up_update")
    /\ Untouched

\* test_update_user_success, lines 201-208 and 217-219
UpdateUpdate ==
    /\ pc = "up_update"
    /\ \E o \in Session("update") :
        /\ Issue("update_tests", "update", "update", o)
        /\ IF o.raised THEN TransportError
           ELSE IF o.response.status_code = 200
           THEN AddTestResult(AddArgs("update_tests", "update",
                                      "test_update_user_success", "PASSED", o.response,
                                      ExpInt(200), ""),
                              "up_get", <<>>)
           ELSE AddTestResult(AddArgs("update_tests", "update",
                                      "test_update_user_success", "FAILED", o.response,
                                      ExpInt(200), "could not update the user"),
                              "del_create", <<>>)
    /\ Untouched

\* test_update_user_success, lines 210-216: the verification read
UpdateVerify ==
    /\ pc = "up_get"
    /\ \E o \in Session("get") :
        /\ Issue("update_tests", "update", "get", o)
        /\ IF o.raised THEN TransportError
           ELSE IF o.response.status_code # 200
           THEN AddTestResult(AddArgs("update_tests", "update",
                                      "test_verify_update", "FAILED", o.response,
                                      ExpInt(200), "the user's data was not updated"),
                              "del_create", <<>>)
           ELSE IF JsonRaises(o.response) THEN JudgeRaises("JSONDecodeError", o.response)
           ELSE IF ~HasKey(JsonValue(o.response), "firstName")
           THEN JudgeRaises("KeyError", o.response)
           ELSE IF Lookup(JsonValue(o.response), "firstName") = "UpdatedFirstName"
           THEN AddTestResult(AddArgs("update_tests", "update",
                                      "test_verify_update", "PASSED", o.response,
                                      ExpInt(200), ""),
                              "del_create", <<o.response>>)
           ELSE AddTestResult(AddArgs("update_tests", "update",
                                      "test_verify_update", "FAILED", o.response,
                                      ExpInt(200), "the user's data was not updated"),
                              "del_create", <<o.response>>)
    /\ Untouched

\* test_delete_user_success, lines 223-229: the prerequisite user
DeleteCreate ==
    /\ pc = "del_create"
    /\ \E o \in Session("create") :
        /\ Issue("update_tests", "delete", "create", o)
        /\ IF o.raised THEN TransportError
           ELSE IF o.response.status_code # 200
           THEN AddTestResult(AddArgs("update_tests", "delete",
                                      "test_delete_user_success", "FAILED", o.response,
                                      ExpInt(200), "could not create the user for the delete test"),
                              Return("report_all", "del_delete"), <<>>)
           ELSE Proceed("del_delete")
    /\ Untouched

\* test_delete_user_success, lines 231-234 and 242-244
DeleteDelete ==
    /\ pc = "del_delete"
    /\ \E o \in Session("delete") :
        /\ Issue("update_tests", "delete", "delete", o)
        /\ IF o.raised THEN TransportError
           ELSE IF o.response.status_code = 200
           THEN AddTestResult(AddArgs("update_tests", "delete",
                                      "test_delete_user_success", "PASSED", o.response,
                                      ExpInt(200), ""),
                              "del_get", <<>>)
           ELSE AddTestResult(AddArgs("update_tests", "delete",
                                      "test_delete_user_success", "FAILED", o.response,
                                      ExpInt(200), "could not delete the user"),
                              "report_all", <<>>)
    /\ Untouched

\* test_delete_user_success, lines 236-241: the verification read
DeleteVerify ==
    /\ pc = "del_get"
    /\ \E o \in Session("get") :
        /\ Issue("update_tests", "delete", "get", o)
        /\ IF o.raised THEN TransportError
           ELSE IF o.response.status_code = 404
           THEN AddTestResult(AddArgs("update_tests", "delete",
                                      "test_verify_deletion", "PASSED", o.response,
                                      ExpInt(404), ""),
                              "report_all", <<>>)
           ELSE AddTestResult(AddArgs("update_tests", "delete",
                                      "test_verify_deletion", "FAILED", o.response,
                                      ExpInt(404), "the user was not deleted"),
                              "report_all", <<>>)
    /\ Untouched

(***************************************************************************)
(* run_all_tests (lines 246-277)                                           *)
(***************************************************************************)
\* lines 268-270: the three result lists, concatenated
AllResults(creation, login, update) == creation \o login \o update

\* lines 268-277
RunAllReport ==
    /\ pc = "report_all"
    /\ test_results' = [test_results EXCEPT !["final_report"] =
                           AllResults(test_results["creation_tests"],
                                      test_results["login_tests"],
                                      test_results["update_tests"])]
    /\ GenerateReport(AllResults(test_results["creation_tests"],
                                 test_results["login_tests"],
                                 test_results["update_tests"]), "done")
    /\ UNCHANGED <<choice, step, user_data, calls>>

(***************************************************************************)
(* test_single_user_flow (lines 279-301)                                   *)
(***************************************************************************)
\* lines 286-292: (step name, call, expected status)
Steps ==
    << [name |-> "user creation", op |-> "create", expected_status |-> 200],
       [name |-> "user login",    op |-> "login",  expected_status |-> 200],
       [name |-> "getting info",  op |-> "get",    expected_status |-> 200],
       [name |-> "user logout",   op |-> "logout", expected_status |-> 200],
       [name |-> "user deletion", op |-> "delete", expected_status |-> 200] >>

\* line 298: step_name.lower().replace(' ', '_')
Slug(name) ==
    CASE name = "user creation" -> "user_creation"
      [] name = "user login"    -> "user_login"
      [] name = "getting info"  -> "getting_info"
      [] name = "user logout"   -> "user_logout"
      [] name = "user deletion" -> "user_deletion"

\* line 297
StepStatus(response, expected_status) ==
    IF response.status_code = expected_status THEN "PASSED" ELSE "FAILED"

\* the loop's exit: every step is run, whatever the earlier ones returned
AfterStepStopOnFailure(i, status) ==
    IF i = Len(Steps) \/ status = "FAILED" THEN "report_flow" ELSE "flow"

AfterStep(i, status) == IF i = Len(Steps) THEN "report_flow" ELSE "flow"

\* lines 294-299: one turn of the loop
FlowStep ==
    /\ pc = "flow"
    /\ step <= Len(Steps)
    /\ \E o \in Session(Steps[step].op) :
        /\ Issue("base", "flow", Steps[step].op, o)
        /\ IF o.raised THEN TransportError
           ELSE AddTestResult(AddArgs("base", "flow", "full_flow_" \o Slug(Steps[step].name),
                                      StepStatus(o.response, Steps[step].expected_status),
                                      o.response, ExpInt(Steps[step].expected_status), ""),
                              AfterStep(step, StepStatus(o.response, Steps[step].expected_status)),
                              <<>>)
    /\ step' = IF pc' = "crashed" THEN step ELSE step + 1
    /\ UNCHANGED <<choice, report, report_file, writes, user_data>>

\* line 301
FlowReport ==
    /\ pc = "report_flow"
    /\ GenerateReport(test_results["base"], "done")
    /\ UNCHANGED <<choice, step, user_data, calls, test_results>>

(***************************************************************************)
(* generate_user_data (lines 19-30).  random.randint(a, b) draws from      *)
(* a..b, both ends included.  Faker's providers return non-empty strings;  *)
(* password(length) draws `length` characters and then overwrites four of  *)
(* them with one special character, digit, upper- and lower-case letter.   *)
(***************************************************************************)
IdMin == 1000
IdMax == 9999
UserStatusMin == 0
UserStatusMax == 1
PasswordLength == 12

RandInt(a, b) == a..b

FakeUserNames == {"jsmith", "amy42"}
FakeFirstNames == {"John"}
FakeLastNames == {"Smith"}
FakeEmails == {"jsmith@example.org"}
FakePhones == {"+1-202-555-0143"}
PasswordFill == {"a", "7"}
RequiredTokens == <<"!", "4", "Q", "x">>

FakePassword(length) ==
    { [i \in 1..length |-> IF i <= Len(RequiredTokens) THEN RequiredTokens[i] ELSE c]
        : c \in PasswordFill }

GenerateUserDataShortPassword ==
    [id : RandInt(IdMin, IdMax),
     username : FakeUserNames,
     firstName : FakeFirstNames,
     lastName : FakeLastNames,
     email : FakeEmails,
     password : FakePassword(PasswordLength - 1),
     phone : FakePhones,
     userStatus : RandInt(UserStatusMin, UserStatusMax)]

GenerateUserData ==
    [id : RandInt(IdMin, IdMax),
     username : FakeUserNames,
     firstName : FakeFirstNames,
     lastName : FakeLastNames,
     email : FakeEmails,
     password : FakePassword(PasswordLength),
     phone : FakePhones,
     userStatus : RandInt(UserStatusMin, UserStatusMax)]

\* lines 316-320: menu choice 3 prints one generated record
PrintUserData ==
    /\ pc = "fixture"
    /\ \E u \in GenerateUserData : user_data' = <<u>>
    /\ pc' = "done"
    /\ UNCHANGED <<choice, step, test_results, report, report_file, writes, exc, clock,
                   calls, attempted, json_calls>>

(***************************************************************************)
(* __main__ (lines 303-323)                                                *)
(***************************************************************************)
Choices == {"1", "2", "3", ""}

Menu ==
    /\ pc = "menu"
    /\ \E c \in Choices :
        /\ choice' = c
        /\ pc' = IF c = "2" THEN "flow" ELSE IF c = "3" THEN "fixture" ELSE "create_success"
    /\ UNCHANGED <<step, test_results, report, report_file, writes, exc, clock, user_data,
                   calls, attempted, json_calls>>

Init == pc = "menu" /\ InitCommon

Next ==
    \/ Menu
    \/ CreateUserSuccess
    \/ CreateUserInvalidData
    \/ LoginLogoutCreate
    \/ LoginLogoutLogin
    \/ LoginLogoutLogout
    \/ LoginInvalidCredentials
    \/ UpdateCreate
    \/ UpdateUpdate
    \/ UpdateVerify
    \/ DeleteCreate
    \/ DeleteDelete
    \/ DeleteVerify
    \/ RunAllReport
    \/ FlowStep
    \/ FlowReport
    \/ PrintUserData

Spec == Init /\ [][Next]_vars

(***************************************************************************)
(*                              Properties                                 *)
(***************************************************************************)
Base == test_results["base"]

\* an add_test_result call returns unless it parses a body that is no JSON
Returned(a) == a.response.content.text = "" \/ a.response.content.is_json

\* the result dict is the one add_test_result builds from the arguments a
Records(r, a) ==
    /\ r.test_name = a.test_name
    /\ r.status = a.status
    /\ r.response_status = a.response.status_code
    /\ r.expected_status = a.expected_status
    /\ r.notes = a.notes
    /\ r.response_body = IF a.response.content.text = "" THEN {} ELSE a.response.content.json

AddedTo(inst) == SelectSeq(attempted, LAMBDA a : a.inst = inst /\ Returned(a))

\* C1: for every sequence of recorded outcomes, the empty one included, the
\* report has passed_tests + failed_tests = total_tests, total_tests the number
\* of recorded outcomes and passed_tests the number of those with status PASSED.
C1_CountsAddUp ==
    Len(report) = 1 =>
        LET r == report[1]
        IN  /\ r.passed_tests + r.failed_tests = r.total_tests
            /\ r.total_tests = Len(Base)
            /\ r.total_tests = Len(AddedTo("base"))
            /\ r.passed_tests = Cardinality({i \in 1..Len(Base) : Base[i].status = "PASSED"})
            /\ r.failed_tests = Cardinality({i \in 1..Len(Base) : Base[i].status # "PASSED"})

C1_Witness ==
    /\ Len(report) = 1
    /\ report[1].total_tests = 3
    /\ report[1].passed_tests = 2
    /\ report[1].failed_tests = 1

\* C2, as claimed: success_rate is 0 for an empty report, and otherwise is
\* 100 * passed_tests / total_tests, lies in [0, 100] and satisfies
\* success_rate * total_tests == 100 * passed_tests.
C2_ExactRate ==
    Len(report) = 1 =>
        LET r == report[1]
        IN  /\ exc # "ZeroDivisionError"
            /\ r.total_tests = 0 => r.success_rate = FZero
            /\ r.total_tests > 0 =>
                /\ r.success_rate = FDiv(100 * r.passed_tests, r.total_tests)
                /\ FMulInt(r.success_rate, r.total_tests) = FromInt(100 * r.passed_tests)
            /\ FLeq(FZero, r.success_rate)
            /\ FLeq(r.success_rate, FromInt(100))

\* C2, amended: success_rate is 0 for an empty report (no division by zero);
\* otherwise it is the double passed_tests / total_tests * 100, which lies in
\* [0, 100], is 0 exactly when nothing passed, is 100 when everything passed, and
\* is at most two floats away from the correctly rounded 100 * passed / total.
C2_RoundedRate ==
    Len(report) = 1 =>
        LET r == report[1]
        IN  /\ exc # "ZeroDivisionError"
            /\ r.total_tests = 0 => r.success_rate = FZero
            /\ r.total_tests > 0 =>
                /\ FNear(r.success_rate, FDiv(100 * r.passed_tests, r.total_tests))
                /\ r.success_rate = FZero <=> r.passed_tests = 0
                /\ r.passed_tests = r.total_tests => r.success_rate = FromInt(100)
            /\ FLeq(FZero, r.success_rate)
            /\ FLeq(r.success_rate, FromInt(100))

C2_Witness ==
    /\ Len(report) = 1
    /\ report[1].total_tests = 3
    /\ report[1].passed_tests = 1
    /\ report[1].success_rate # FDiv(100, 3)
    /\ FNear(report[1].success_rate, FDiv(100, 3))

\* C3: each instance's test_results holds exactly the outcomes of the
\* add_test_result calls that returned, in call order and unaltered; the report
\* carries them all, and in run_all_tests it lists the creation outcomes, then
\* the login/logout outcomes, then the update/delete outcomes.
C3_OrderPreserved ==
    /\ \A inst \in {"creation_tests", "login_tests", "update_tests", "base"} :
          /\ Len(test_results[inst]) = Len(AddedTo(inst))
          /\ \A i \in 1..Len(test_results[inst]) :
                Records(test_results[inst][i], AddedTo(inst)[i])
    /\ Len(report) = 1 =>
          /\ Len(report[1].test_results) = Len(SelectSeq(attempted, Returned))
          /\ report[1].test_results =
                IF choice = "2" THEN Base
                ELSE test_results["creation_tests"] \o test_results["login_tests"]
                        \o test_results["update_tests"]
          /\ report_file = report

C3_Witness ==
    /\ Len(report) = 1
    /\ choice = "1"
    /\ Len(test_results["creation_tests"]) = 2
    /\ Len(test_results["login_tests"]) = 3
    /\ Len(test_results["update_tests"]) = 4
    /\ report[1].test_results[3].test_name = "test_login_success"
    /\ report[1].test_results[9].test_name = "test_verify_deletion"

\* C4, as claimed, for the responses whose body is empty or a JSON document
\* (the claim also names bodies of other text): whenever a call completes, a
\* response with an unexpected status or content is recorded as FAILED with a
\* non-empty note and nothing is raised.  So no run ends in an exception raised
\* over an empty or JSON body, every FAILED outcome carries a note, and a step
\* of the full cycle whose response is not 200 is recorded as FAILED.
C4_MismatchRecordedNeverRaises ==
    /\ exc \in {"JSONDecodeError", "KeyError"} =>
          /\ json_calls # <<>>
          /\ json_calls[Len(json_calls)].content.text # ""
          /\ ~json_calls[Len(json_calls)].content.is_json
    /\ \A inst \in Instances : \A i \in 1..Len(test_results[inst]) :
          test_results[inst][i].status = "FAILED" => test_results[inst][i].notes # ""
    /\ \A i \in 1..Len(Base) :
          calls[i].status_code # 200 => Base[i].status = "FAILED"

Flow == choice = "2"

\* C5, as claimed: in the full cycle, once the create call returned a status
\* other than 200, login, get and delete are not invoked.
C5_DependentStepsSkipped ==
    (Flow /\ Len(calls) >= 1 /\ ~calls[1].raised /\ calls[1].status_code # 200) =>
        \A i \in 2..Len(calls) : calls[i].op \notin {"login", "get", "delete"}

AllScenarios ==
    {"create_success", "create_invalid", "login_logout", "login_invalid", "update", "delete"}

\* C6: the report file is written at most once, only when nothing was raised
\* and every scenario step has completed; a run that raises writes no report.
C6_NoReportAfterFailure ==
    /\ writes <= 1
    /\ Len(report_file) = writes
    /\ exc # "none" => writes = 0 /\ report = <<>> /\ pc = "crashed"
    /\ writes = 1 =>
          /\ exc = "none"
          /\ pc = "done"
          /\ \A i \in 1..Len(calls) : ~calls[i].raised
          /\ IF Flow THEN Len(calls) = 5 /\ Len(Base) = 5
             ELSE {calls[i].scenario : i \in 1..Len(calls)} = AllScenarios

C6_Witness ==
    /\ pc = "crashed"
    /\ exc = "JSONDecodeError"
    /\ Len(test_results["creation_tests"]) = 2
    /\ Len(test_results["login_tests"]) = 3
    /\ Len(test_results["update_tests"]) = 1
    /\ calls[Len(calls)].op = "get"
    /\ writes = 0

\* C7: add_test_result on a response with an empty body never parses and never
\* raises: it appends one outcome with response_body {} and the response's
\* status code; only non-empty bodies are parsed.
C7_EmptyBodyNotParsed ==
    /\ \A k \in 1..Len(attempted) :
          attempted[k].response.content.text = "" =>
              /\ k <= Len(Base)
              /\ Base[k].response_body = {}
              /\ Base[k].response_status = attempted[k].response.status_code
    /\ \A j \in 1..Len(json_calls) : json_calls[j].content.text # ""
    /\ Len(Base) = Len(attempted) - (IF exc = "none" THEN 0 ELSE 1)
    /\ exc # "none" => attempted[Len(attempted)].response.content.text # ""

C7_Witness ==
    /\ Len(attempted) = 3
    /\ attempted[1].response.content.text # ""
    /\ attempted[2].response.content.text = ""
    /\ attempted[3].response.content.text = ""
    /\ Len(Base) = 3
    /\ Base[3].response_body = {}
    /\ exc = "none"

\* C8: a generated record has 1000 <= id <= 9999, userStatus 0 or 1, a password
\* of 12 characters and non-empty strings; generating never fails.
C8_FixtureShape ==
    /\ pc = "fixture" => exc = "none"
    /\ user_data # <<>> =>
          LET u == user_data[1]
          IN  /\ exc = "none"
              /\ 1000 <= u.id /\ u.id <= 9999
              /\ u.userStatus \in {0, 1}
              /\ Len(u.password) = 12
              /\ \A f \in {u.username, u.firstName, u.lastName, u.email, u.phone} : f # ""
              /\ u.password # <<>>

C8_Witness ==
    /\ user_data # <<>>
    /\ user_data[1].id = 9999
    /\ user_data[1].userStatus = 1
    /\ Len(user_data[1].password) = 12

CallsOf(s) == SelectSeq(calls, LAMBDA c : c.scenario = s)

InstanceOf(s) == IF s = "login_logout" THEN "login_tests" ELSE "update_tests"

NamesOf(s) ==
    CASE s = "login_logout" -> {"test_login_logout_success", "test_login_success",
                                "test_logout_success"}
      [] s = "update" -> {"test_update_user_success", "test_verify_update"}
      [] s = "delete" -> {"test_delete_user_success", "test_verify_deletion"}

OutcomesOf(s) ==
    SelectSeq(test_results[InstanceOf(s)], LAMBDA r : r.test_name \in NamesOf(s))

OneFailed(s) == Len(OutcomesOf(s)) = 1 /\ OutcomesOf(s)[1].status = "FAILED"

\* recording the scenario's last response raised: its body is text but no JSON
RecordRaised(s) ==
    /\ OutcomesOf(s) = <<>>
    /\ exc = "JSONDecodeError"
    /\ attempted # <<>>
    /\ attempted[Len(attempted)].scenario = s
    /\ ~Returned(attempted[Len(attempted)])

CreateFailed(s) ==
    LET cs == CallsOf(s) IN Len(cs) >= 1 /\ ~cs[1].raised /\ cs[1].status_code # 200

LoginFailed ==
    LET cs == CallsOf("login_logout")
    IN  /\ Len(cs) >= 2
        /\ ~cs[2].raised
        /\ ~(cs[2].status_code = 200 /\ "logged in" \in cs[2].has)

VerifyOnlyAfter200(s) ==
    LET cs == CallsOf(s)
    IN  \A i \in 1..Len(cs) :
            cs[i].op = "get" =>
                /\ i = 3
                /\ cs[2].op = (IF s = "update" THEN "update" ELSE "delete")
                /\ ~cs[2].raised
                /\ cs[2].status_code = 200

\* C9, as claimed: a failed prerequisite create, or a failed login check,
\* leaves exactly one outcome, FAILED, and no further call of the scenario; a
\* verification get follows only an update/delete that returned 200.
C9_OneFailedOutcome ==
    /\ \A s \in {"login_logout", "update", "delete"} :
          CreateFailed(s) => OneFailed(s) /\ Len(CallsOf(s)) = 1
    /\ LoginFailed => OneFailed("login_logout") /\ Len(CallsOf("login_logout")) = 2
    /\ VerifyOnlyAfter200("update") /\ VerifyOnlyAfter200("delete")

\* C9, amended: after a failed prerequisite create, or a failed login check, the
\* scenario issues no further call and records exactly one outcome, FAILED,
\* when the response body is empty or JSON; when the body is other text,
\* add_test_result raises, nothing is recorded and the run ends.  A
\* verification get follows only an update/delete that returned 200.
C9_OneFailedOutcomeOrRaise ==
    /\ \A s \in {"login_logout", "update", "delete"} :
          CreateFailed(s) => (OneFailed(s) \/ RecordRaised(s)) /\ Len(CallsOf(s)) = 1
    /\ LoginFailed =>
          /\ OneFailed("login_logout") \/ RecordRaised("login_logout")
          /\ Len(CallsOf("login_logout")) = 2
    /\ VerifyOnlyAfter200("update") /\ VerifyOnlyAfter200("delete")

C9_Witness ==
    /\ pc = "done"
    /\ LoginFailed /\ OneFailed("login_logout")
    /\ CreateFailed("update") /\ OneFailed("update")
    /\ Len(CallsOf("delete")) = 3

FlowOrder == <<"create", "login", "get", "logout", "delete">>

FlowNames ==
    <<"full_flow_user_creation", "full_flow_user_login", "full_flow_getting_info",
      "full_flow_user_logout", "full_flow_user_deletion">>

\* C10: while nothing raises, the full cycle calls create, login, get, logout,
\* delete in this order whatever the earlier steps returned, records one
\* outcome per call, PASSED exactly when the status code is 200, and builds the
\* report only after the fifth.
C10_AllStepsRun ==
    (Flow /\ exc = "none") =>
        /\ Len(calls) = Len(Base)
        /\ Len(calls) <= 5
        /\ \A i \in 1..Len(calls) :
              /\ calls[i].op = FlowOrder[i]
              /\ Base[i].test_name = FlowNames[i]
              /\ Base[i].response_status = calls[i].status_code
              /\ Base[i].status \in {"PASSED", "FAILED"}
              /\ Base[i].status = "PASSED" <=> calls[i].status_code = 200
        /\ pc = "flow" => step = Len(calls) + 1 /\ step <= 5
        /\ pc \in {"report_flow", "done"} => Len(calls) = 5
        /\ Len(report) = 1 => pc = "done" /\ report[1].test_results = Base /\ Len(Base) = 5

C10_Witness ==
    /\ Flow
    /\ pc = "done"
    /\ Len(report) = 1
    /\ Base[1].status = "PASSED"
    /\ Base[2].status = "FAILED"
    /\ Base[4].status = "PASSED"
    /\ Base[5].status = "PASSED"
====
